---- MODULE Spec2Model ----
(***************************************************************************)
(* EDI 944 converter (outsourceai/edi-mapper): a Streamlit page (app/main)  *)
(* over a session state (app/config) that sends tabular text to a chat      *)
(* model through EDI944Converter (app/converter) and stores what comes      *)
(* back.  Python strings are TLA+ strings; the chat model, the file system  *)
(* and the wall clock are the environment, drawn with \E in the actions.    *)
(*                                                                          *)
(* Three specifications:                                                    *)
(*   Spec      one browser session running main() again and again;          *)
(*   SpecConv  the EDI944Converter class driven directly (constructor,      *)
(*             convert_tabular_to_edi944, save_to_file), and                *)
(*             config.set_conversion_mode;                                  *)
(*   SpecKey   the session of Spec next to a page of the API test tool      *)
(*             (test_api.py), to follow where an entered key goes.          *)
(***************************************************************************)
EXTENDS Integers, Sequences, FiniteSets, TLC

VARIABLES session_state, environ, files, clock, ui, browser, conv, call, prev, tool

vars == <<session_state, environ, files, clock, ui, browser, conv, call, prev, tool>>

(***************************** bounds **************************************)
\* Temp files the model lets exist (each conversion press may create one).
MaxFiles == 2
\* Temp files SpecKey lets exist: one conversion is enough to follow a key.
MaxKeyFiles == 1

(************************* Python string helpers ***************************)
Char(s, i) == SubSeq(s, i, i)

\* The characters str.strip() removes, those for which str.isspace() holds,
\* as far as a string of the model can hold them: space, \t, \n, \r, \f,
\* and the controls VT (0x0b), FS, GS, RS and US (0x1c to 0x1f).  (NEL,
\* NBSP and the Unicode spaces are outside the model's alphabet.)
Whitespace == {" ", "\n", "\t", "\r", "\f", "", "", "", "", ""}

RECURSIVE LStrip(_)
LStrip(s) ==
  IF Len(s) > 0 /\ Char(s, 1) \in Whitespace THEN LStrip(SubSeq(s, 2, Len(s))) ELSE s

RECURSIVE RStrip(_)
RStrip(s) ==
  IF Len(s) > 0 /\ Char(s, Len(s)) \in Whitespace
  THEN RStrip(SubSeq(s, 1, Len(s) - 1)) ELSE s

\* A mutant of Strip: the text is returned as received.
StripNothing(s) == s

\* str.strip()
Strip(s) == RStrip(LStrip(s))

\* The cut of the history previews, x[:100].
PreviewLen == 100

\* x[:100] + "..." if len(x) > 100 else x
Preview(s) == IF Len(s) > PreviewLen THEN SubSeq(s, 1, PreviewLen) \o "..." ELSE s

\* None
None == "<None>"

\* dict(d, **{k: v})
Put(d, k, v) == [x \in (DOMAIN d) \cup {k} |-> IF x = k THEN v ELSE d[x]]

\* A local name bound to a value computed once: body(e).
Bind(e, body(_)) == CHOOSE r \in {body(x) : x \in {e}} : TRUE

Info(msg) == [level |-> "INFO", msg |-> msg]
Err(msg) == [level |-> "ERROR", msg |-> msg]

(************************ app/converter.py *********************************)
\* The reference document of standard_template ("Sample EDI 944 code").
standard_sample_edi ==
  "ISA*00          00          ZZ*DCG            ZZ*9083514477     220519*0800*U*00401*000001057*1*P*>~"
  \o "GS*RE*DCG*9083514477*20220519*0800*1057*X*004010~ST*944*0001~"
  \o "W17*F*20220516*EISU9397985-21104*21104*EISU9397985*9*1337~N1*WH*D7~"
  \o "N9*ZZ*EISU9397985~N9*IN*0100-128E EGLV11020001328~"
  \o "W07*3024*EA*196272171026*VN*HCZK203-STK~G69*3PC LIFE WITH MAMMALS SHORT SET~"
  \o "N9*CL*GREY~N9*SZ*PPK~N9*PO*CS22/0406~N9*LN*18.000~N9*WD*13.000~N9*HT*19.000~"
  \o "N9*WT*24.200~W07*6000*EA*196272482689*VN*HCZK403-STK~"
  \o "G69*3PC LIFE WITH MAMMALS SHORT SET~N9*CL*GREY~N9*SZ*PPK~N9*PO*CS22/0406~"
  \o "N9*LN*18.000~N9*WD*13.000~N9*HT*19.000~N9*WT*27.940~W14*31248~SE*70*0001~GE*1*1057~"
  \o "IEA*1*000001057~"

\* The reference document of synapse_template ("Sample EDI 944 code").
synapse_sample_edi ==
  "ISA*00          00          ZZ*DCG            ZZ*9083514477     220519*0800*U*00401*000001057*1*P*>~"
  \o "GS*RE*DCG*9083514477*20220519*0800*1057*X*004010~ST*944*0001~"
  \o "W17*F*20220516*EISU9397985-21104*21104*EISU9397985*9*1337~N1*WH*D7~"
  \o "N9*ZZ*EISU9397985~N9*IN*0100-128E EGLV11020001328~"
  \o "W07*3024*EA*196272171026*VN*HCZK203-STK~G69*3PC LIFE WITH MAMMALS SHORT SET~"
  \o "N9*CL*GREY~N9*SZ*PPK~N9*PO*CS22/0406~N9*LN*18.000~N9*WD*13.000~N9*HT*19.000~"
  \o "N9*WT*24.200~W07*6000*EA*196272482689*VN*HCZK403-STK~"
  \o "G69*3PC LIFE WITH MAMMALS SHORT SET~N9*CL*GREY~N9*SZ*PPK~N9*PO*CS22/0406~"
  \o "N9*LN*18.000~N9*WD*13.000~N9*HT*19.000~N9*WT*27.940~"
  \o "W07*6000*EA*196272598878*VN*HCZK404-STK~G69*3PC TINY BUT MIGHTY SHORT SET~"
  \o "N9*CL*GREEN~N9*SZ*PPK~N9*PO*CS22/0406~N9*LN*20.000~N9*WD*14.500~N9*HT*19.500~"
  \o "N9*WT*27.500~W07*3024*EA*196272729241*VN*HCZK206-STK~G69*3PC LION SHORT SET~"
  \o "N9*CL*YELLO~N9*SZ*PPK~N9*PO*CS22/0407~N9*LN*18.000~N9*WD*13.000~N9*HT*19.000~"
  \o "N9*WT*45.760~W07*6000*EA*196272730063*VN*HCZK406-STK~G69*3PC LION SHORT SET~"
  \o "N9*CL*YELLO~N9*SZ*PPK~N9*PO*CS22/0407~N9*LN*20.000~N9*WD*14.000~N9*HT*19.000~"
  \o "N9*WT*27.060~W07*6000*EA*196272215515*VN*HCZK606-STK~G69*3PC LION SHORT SET~"
  \o "N9*CL*YELLO~N9*SZ*PPK~N9*PO*CS22/0407~N9*LN*22.000~N9*WD*14.000~N9*HT*19.000~"
  \o "N9*WT*32.520~W07*1200*EA*196272246359*VN*HCZW823-STK~G69*3PC BUG EXPERT SHORT SET~"
  \o "N9*CL*WHITE~N9*SZ*PPK~N9*PO*CS22/0408~N9*LN*22.000~N9*WD*16.000~N9*HT*24.000~"
  \o "N9*WT*36.520~W14*31248~SE*70*0001~GE*1*1057~IEA*1*000001057~"

\* self.standard_template: its title line, reference document, edge-case
\* rules and task line (the sample input lines and the segment list carry no
\* behaviour and are left out).
standard_template ==
  [ name |-> "standard",
    task |-> "Convert the following tabular EDI 944 data into proper EDI 944 code format:",
    sample_edi |-> standard_sample_edi,
    edge_cases |-> << "If minimal data is provided, create appropriate placeholder values",
                      "Include appropriate reference segments even if not explicitly in input",
                      "Always use the correct delimiters as specified (*) and (~)",
                      "Always include the complete set of required segments" >> ]

\* self.synapse_template
synapse_template ==
  [ name |-> "synapse",
    task |-> "Convert the following Synapse EDI 944 data (tabular) to standard EDI 944 code format:",
    sample_edi |-> synapse_sample_edi,
    edge_cases |-> << "If minimal data is provided, create appropriate placeholder values",
                      "Include appropriate reference segments even if not explicitly in input",
                      "CRITICAL: ALWAYS use asterisk (*) as element separator and tilde (~) as segment terminator after EVERY segment",
                      "Always include the complete set of required segments",
                      "Use N1*WH for warehouse and N1*ST for store/supplier consistently",
                      "Ensure date formats are YYYYMMDD in all segments" >> ]

\* template = self.standard_template if mode == "standard" else self.synapse_template
SelectTemplate(mode) == IF mode = "standard" THEN standard_template ELSE synapse_template

\* EDI944Converter.__init__: the object's fields (the chain is the prompt
\* template bound to a gpt-4 chat model at temperature 0.1).
EDI944Converter(api_key, mode) ==
  [ api_key |-> api_key, mode |-> mode, model_name |-> "gpt-4",
    template |-> SelectTemplate(mode) ]

\* A mutant of Prompt: the {tabular_data} placeholder is left unfilled.
PromptDropsData(self, tabular_data) ==
  [ template |-> self.template, tabular_data |-> "", api_key |-> self.api_key ]

\* self.prompt.format(tabular_data=...): what one chain.invoke sends.
Prompt(self, tabular_data) ==
  [ template |-> self.template, tabular_data |-> tabular_data, api_key |-> self.api_key ]

\* What chain.invoke can do: return a dict with "text", return something
\* that is no such dict (its str() is taken), or raise.
ReplyDict(text) == [kind |-> "dict", text |-> text]
ReplyOther(text) == [kind |-> "other", text |-> text]
ReplyRaise(text) == [kind |-> "raise", text |-> text]

\* The chain.invoke calls of one convert_tabular_to_edi944: one, line 148.
ChainCalls(self, tabular_data, reply) == << Prompt(self, tabular_data) >>

\* A mutant of convert_tabular_to_edi944: the input is returned in place of
\* the model's text.
ConvertReturnsInput(self, tabular_data, reply) ==
  [ ok |-> reply.kind # "raise",
    value |-> IF reply.kind = "raise" THEN "" ELSE Strip(tabular_data),
    error |-> IF reply.kind = "raise" THEN "Error during conversion: " \o reply.text ELSE "",
    prompts |-> ChainCalls(self, tabular_data, reply),
    logged |-> << >> ]

\* EDI944Converter.convert_tabular_to_edi944: the value returned or the
\* exception raised, the prompts sent and the log records written.
convert_tabular_to_edi944(self, tabular_data, reply) ==
  LET mode_str == IF self.mode = "standard" THEN "standard" ELSE "Synapse-specific"
      start == Info("Starting conversion from tabular to " \o mode_str
                    \o " EDI 944 format using LangChain")
      done == Info("Successfully converted tabular data to " \o mode_str \o " EDI 944 format")
      error_msg == "Error during conversion: " \o reply.text
  IN IF reply.kind = "raise"
     THEN [ ok |-> FALSE, value |-> "", error |-> error_msg,
            prompts |-> ChainCalls(self, tabular_data, reply),
            logged |-> << start, Err(error_msg) >> ]
     ELSE [ ok |-> TRUE, value |-> Strip(reply.text), error |-> "",
            prompts |-> ChainCalls(self, tabular_data, reply),
            logged |-> << start, done >> ]

\* The random part of a mkstemp name: the n-th fresh name.
TempName(n) == SubSeq("abcdefghijklmnop", n, n)

\* tempfile.mkstemp(suffix='.txt', prefix=f'edi944_{mode_str}_'): a path no
\* file has yet.
Mkstemp(self, fs) ==
  LET mode_str == IF self.mode = "standard" THEN "standard" ELSE "synapse"
  IN "/tmp/edi944_" \o mode_str \o "_" \o TempName(Cardinality(DOMAIN fs) + 1) \o ".txt"

\* What the file system can do to save_to_file: let it through, fail mkstemp
\* (no file), or fail the write after `written` characters (the file mkstemp
\* made stays, holding what was written: nothing, or a beginning).
IoOk == [kind |-> "ok", written |-> 0]
WrittenCounts == {0, 10}
IoOutcomes ==
  {IoOk, [kind |-> "mkstemp_fails", written |-> 0]}
  \cup {[kind |-> "write_fails", written |-> n] : n \in WrittenCounts}

\* A mutant of save_to_file: the file is written under a name in use
\* (the first temp name), overwriting it.
SaveReusesName(self, edi944_code, fs, io) ==
  LET mode_str == IF self.mode = "standard" THEN "standard" ELSE "synapse"
      temp_path == "/tmp/edi944_" \o mode_str \o "_" \o TempName(1) \o ".txt"
  IN [ ok |-> TRUE, path |-> temp_path, error |-> "",
       files |-> Put(fs, temp_path, edi944_code),
       logged |-> << Info("Saving " \o mode_str \o " EDI 944 code to temporary file"),
                     Info("EDI 944 code saved to " \o temp_path) >> ]

\* EDI944Converter.save_to_file: the path returned or the exception raised,
\* the files after it and the log records written.
save_to_file(self, edi944_code, fs, io) ==
  LET mode_str == IF self.mode = "standard" THEN "standard" ELSE "synapse"
      saving == Info("Saving " \o mode_str \o " EDI 944 code to temporary file")
      temp_path == Mkstemp(self, fs)
      error_msg == "Error saving EDI 944 code to file: " \o io.kind
      written == IF io.written < Len(edi944_code) THEN io.written ELSE Len(edi944_code)
  IN CASE io.kind = "ok" ->
            [ ok |-> TRUE, path |-> temp_path, error |-> "",
              files |-> Put(fs, temp_path, edi944_code),
              logged |-> << saving, Info("EDI 944 code saved to " \o temp_path) >> ]
       [] io.kind = "mkstemp_fails" ->
            [ ok |-> FALSE, path |-> None, error |-> error_msg, files |-> fs,
              logged |-> << saving, Err(error_msg) >> ]
       [] OTHER ->
            [ ok |-> FALSE, path |-> None, error |-> error_msg,
              files |-> Put(fs, temp_path, SubSeq(edi944_code, 1, written)),
              logged |-> << saving, Err(error_msg) >> ]

(**************************** a run of the script **************************)
Shown(kind, text) == [kind |-> kind, text |-> text]

\* A run of main() as far as it has come: the session and the files as the
\* script has left them, what it has drawn (shown), the buttons it has put
\* on the page (widgets), what it asked the model (prompts) and logged,
\* whether it read the clock, whether st.rerun() ended it, and one frame for
\* every st.* call and st.session_state access it made.
\*
\* An event of the same session that arrives while the script runs makes
\* Streamlit stop the script in its next call of st.* or access of
\* st.session_state, before that call draws or writes anything, and start
\* the run of the event.  A frame is the run as it was when the call was
\* entered, that is, the run a stop in that call leaves.  Calls that follow
\* each other with nothing between them that changes the run leave the same
\* run; they are one frame, named by the file, the line and the name of the
\* first (frames of main.py carry no file name).
NewRun(s, fs) ==
  [ session |-> s, files |-> fs, shown |-> << >>, widgets |-> {}, prompts |-> << >>,
    logged |-> << >>, read_clock |-> FALSE, rerun |-> FALSE, frames |-> << >> ]

Frame(r) ==
  [ session |-> r.session, files |-> r.files, shown |-> r.shown, widgets |-> r.widgets,
    prompts |-> r.prompts, logged |-> r.logged, read_clock |-> r.read_clock ]

\* The call `name` of st.*: it draws `items` and puts the buttons `ws` on the
\* page (nothing and none for an access of st.session_state).
St(e, name, items, ws) ==
  Bind(e, LAMBDA r :
  [ r EXCEPT !.frames = Append(@, [name |-> name, at |-> Frame(r)]),
             !.shown = @ \o items,
             !.widgets = @ \cup ws ])

(************************** app/config.py **********************************)
\* init_session_state, one key: it is set only when the session lacks it.
\*   name                     the line of the test and the line of the write
InitKey(e, name, key, value) ==
  Bind(St(e, name, << >>, {}), LAMBDA a :
  IF key \in DOMAIN a.session THEN a ELSE [ a EXCEPT !.session = Put(@, key, value) ])

\* init_session_state
init_session_state(e) ==
  InitKey(InitKey(InitKey(InitKey(e,
    "config.py:19:st.session_state", "api_key", ""),
    "config.py:22:st.session_state", "temp_file_path", None),
    "config.py:25:st.session_state", "conversion_history", << >>),
    "config.py:29:st.session_state", "conversion_mode", "standard")

\* save_api_key
save_api_key(e, api_key) ==
  Bind(St(e, "config.py:34:st.session_state", << >>, {}), LAMBDA a :
  [ a EXCEPT !.session = Put(@, "api_key", api_key),
             !.logged = @ \o << Info("API key saved to session state") >> ])

\* get_api_key: the session's key, else the environment's (which it then
\* saves to the session), else "": the key returned and the run after it.
\*   "config.py:40:st.session_state"   lines 40-41
get_api_key(e, env) ==
  Bind(St(e, "config.py:40:st.session_state", << >>, {}), LAMBDA a :
  IF a.session["api_key"] # ""
  THEN [ key |-> a.session["api_key"], run |-> a ]
  ELSE IF env # ""
       THEN [ key |-> env, run |-> save_api_key(a, env) ]
       ELSE [ key |-> "", run |-> a ])

\* set_conversion_mode: one of the two modes is stored, any other value is
\* refused with a warning.  (No code of the repository calls it.)
set_conversion_mode(s, mode) ==
  IF mode \in {"standard", "synapse"}
  THEN [ session |-> Put(s, "conversion_mode", mode),
         logged |-> << Info("Conversion mode set to " \o mode) >> ]
  ELSE [ session |-> s,
         logged |-> << [level |-> "WARNING", msg |-> "Invalid conversion mode: " \o mode] >> ]

\* get_conversion_mode: st.session_state.get('conversion_mode', "standard")
get_conversion_mode(s) ==
  IF "conversion_mode" \in DOMAIN s THEN s["conversion_mode"] ELSE "standard"

(*************************** app/main.py ***********************************)
\* base64.b64encode(...).decode(), kept as a reversible wrapping of its input.
B64(s) == "b64(" \o s \o ")"

\* os.path.basename of a temp path.
Basename(path) == SubSeq(path, Len("/tmp/") + 1, Len(path))

\* What open(file_path, 'r').read() gives for a file holding s: text mode
\* reads "\r\n" and a lone "\r" as "\n" (universal newlines).
RECURSIVE NewlinesFrom(_, _, _)
NewlinesFrom(s, P, from) ==
  LET Q == {i \in P : i >= from}
      p == CHOOSE i \in Q : \A j \in Q : i <= j
      next == IF p < Len(s) /\ Char(s, p + 1) = "\n" THEN p + 2 ELSE p + 1
  IN IF Q = {} THEN SubSeq(s, from, Len(s))
     ELSE SubSeq(s, from, p - 1) \o "\n" \o NewlinesFrom(s, P, next)

UniversalNewlines(s) == NewlinesFrom(s, {i \in 1..Len(s) : Char(s, i) = "\r"}, 1)

\* get_download_link: the anchor; when the file cannot be read, None and
\* the error record of line 84.
get_download_link(fs, file_path, link_text) ==
  IF file_path \in DOMAIN fs
  THEN [ link |-> "<a href=\"data:text/plain;base64," \o B64(UniversalNewlines(fs[file_path]))
                  \o "\" download=\"" \o Basename(file_path) \o "\">" \o link_text \o "</a>",
         logged |-> << >> ]
  ELSE [ link |-> None,
         logged |-> << Err("Error generating download link: [Errno 2] No such file or directory: '"
                           \o file_path \o "'") >> ]

\* What llm.invoke does to a key check (main.py line 103, test_api.py line
\* 33): it answers, or the client raises; the text of its exception is the
\* client's, and can quote the key it was given.
KeyAnswers(api_key) ==
  { ReplyOther("Hello!"), ReplyRaise("Connection error."),
    ReplyRaise("Incorrect API key provided: " \o api_key) }

\* validate_api_key: the length check, then one "Hello" to gpt-3.5-turbo,
\* which answers or raises; line 107 logs str(e).
validate_api_key(api_key, answer) ==
  IF api_key = "" \/ Len(Strip(api_key)) < 10
  THEN [ ok |-> FALSE, logged |-> << >> ]
  ELSE IF answer.kind # "raise"
       THEN [ ok |-> TRUE,
              logged |-> << Info("Testing OpenAI API key with LangChain ChatOpenAI"),
                            Info("API key validation successful") >> ]
       ELSE [ ok |-> FALSE,
              logged |-> << Info("Testing OpenAI API key with LangChain ChatOpenAI"),
                            Err("API key validation error: " \o answer.text) >> ]

\* pd.Timestamp.now().strftime("%Y-%m-%d %H:%M:%S") at second t of the clock.
Timestamp(t) == "2025-03-04 16:47:2" \o SubSeq("0123456789", t + 1, t + 1)

\* main, lines 118-154: the header and the sidebar.
\*   "118:st.markdown"        lines 118-129 (the CSS, st.title, st.markdown,
\*                            st.sidebar.title)
\*   "134:st.text_input"      lines 134-136 (with st.form_submit_button)
Sidebar(e, env, widget, text, answer) ==
  Bind(get_api_key(St(e, "118:st.markdown", << >>, {}), env), LAMBDA g :
  IF g.key = ""
  THEN Bind(St(St(g.run, "133:st.sidebar.form", << Shown("form", "api_key_form") >>, {}),
               "134:st.text_input", << >>, {"api_key_form"}), LAMBDA c :
       IF widget # "api_key_form"
       THEN c
       ELSE IF text # "" /\ Len(Strip(text)) > 10
       THEN Bind(validate_api_key(text, answer), LAMBDA v :
            Bind([ c EXCEPT !.logged = @ \o << Info("Attempting to validate API key") >>
                                         \o v.logged ], LAMBDA d :
            IF v.ok
            THEN [ St(save_api_key(d, text), "143:st.success",
                      << Shown("success", "API key saved successfully!") >>, {})
                   EXCEPT !.rerun = TRUE ]
            ELSE St(d, "146:st.error",
                    << Shown("error", "Invalid API key. Please check and try again.") >>, {})))
       ELSE St(c, "148:st.error", << Shown("error", "Please enter a valid API key.") >>, {}))
  ELSE Bind(St(St(g.run, "150:st.sidebar.success",
                  << Shown("sidebar_success", "API key is configured") >>, {}),
               "151:st.sidebar.button", << >>, {"change_api_key"}), LAMBDA c :
       IF widget = "change_api_key"
       THEN [ St(c, "153:st.session_state", << >>, {})
              EXCEPT !.session = Put(c.session, "api_key", ""), !.rerun = TRUE ]
       ELSE c))

\* The dict appended to conversion_history (main, lines 233-239 and 324-330).
HistoryEntry(timestamp, label, data, edi_code, file_path) ==
  [ timestamp |-> timestamp, mode |-> label, input |-> Preview(data),
    output |-> Preview(edi_code), file_path |-> file_path ]

\* The call of a tab by its mode: the line in tab1 or the line in tab2.
TabCall(mode, standard_call, synapse_call) ==
  IF mode = "standard" THEN standard_call ELSE synapse_call

\* main, lines 254-256 and 345-347: the except branch.
ConversionFailed(e, mode, error) ==
  Bind(St(e, TabCall(mode, "255:st.error", "346:st.error"),
          << Shown("error", "Error during conversion: " \o error) >>, {}), LAMBDA a :
  [ a EXCEPT !.logged = @ \o << Err("Conversion error: " \o error) >> ])

\* main, lines 242-252 and 333-343: the success message, the output and the
\* download link.
\*   "243:st.subheader"       lines 243-248 (with the st.markdown of the output)
\*   "334:st.subheader"       lines 334-339
ConversionShown(e, mode, label, edi_code, file_path) ==
  Bind(St(St(e, TabCall(mode, "242:st.success", "333:st.success"),
             << Shown("success", "Conversion completed successfully!") >>, {}),
          TabCall(mode, "243:st.subheader", "334:st.subheader"),
          << Shown("code", edi_code) >>, {}), LAMBDA c :
  Bind(get_download_link(c.files, file_path, "Download " \o label \o " Code"), LAMBDA dl :
  St([ c EXCEPT !.logged = @ \o dl.logged ],
     TabCall(mode, "252:st.markdown", "343:st.markdown"),
     << Shown("download", dl.link) >>, {})))

\* A mutant of ConversionDone: temp_file_path is assigned before the save is
\* known to have worked.
ConversionDoneStoresPathFirst(e, converter, label, data, r, io, t) ==
  Bind(e, LAMBDA a :
  Bind(save_to_file(converter, r.value, a.files, io), LAMBDA sv :
  IF ~sv.ok
  THEN ConversionFailed([ a EXCEPT !.session = Put(a.session, "temp_file_path", sv.path),
                                   !.files = sv.files, !.logged = @ \o sv.logged ],
                        converter.mode, sv.error)
  ELSE Bind(St([ a EXCEPT !.files = sv.files, !.logged = @ \o sv.logged ],
               TabCall(converter.mode, "229:st.session_state", "320:st.session_state"),
               << >>, {}), LAMBDA b :
       Bind(St([ b EXCEPT !.session = Put(b.session, "temp_file_path", sv.path),
                          !.read_clock = TRUE ],
               TabCall(converter.mode, "233:st.session_state", "324:st.session_state"),
               << >>, {}), LAMBDA c :
       ConversionShown(
         [ c EXCEPT !.session =
                      Put(c.session, "conversion_history",
                          Append(c.session["conversion_history"],
                                 HistoryEntry(Timestamp(t), label, data, r.value, sv.path))) ],
         converter.mode, label, r.value, sv.path)))))

\* main, lines 227-252 and 318-343: the document is saved (228), then
\* temp_file_path is set (229), the clock is read (232) and the entry is
\* appended to the list that st.session_state holds (233); then the success
\* message, the output and the download link are drawn.
ConversionDone(e, converter, label, data, r, io, t) ==
  Bind(e, LAMBDA a :
  Bind(save_to_file(converter, r.value, a.files, io), LAMBDA sv :
  IF ~sv.ok
  THEN ConversionFailed([ a EXCEPT !.files = sv.files, !.logged = @ \o sv.logged ],
                        converter.mode, sv.error)
  ELSE Bind(St([ a EXCEPT !.files = sv.files, !.logged = @ \o sv.logged ],
               TabCall(converter.mode, "229:st.session_state", "320:st.session_state"),
               << >>, {}), LAMBDA b :
       Bind(St([ b EXCEPT !.session = Put(b.session, "temp_file_path", sv.path),
                          !.read_clock = TRUE ],
               TabCall(converter.mode, "233:st.session_state", "324:st.session_state"),
               << >>, {}), LAMBDA c :
       ConversionShown(
         [ c EXCEPT !.session =
                      Put(c.session, "conversion_history",
                          Append(c.session["conversion_history"],
                                 HistoryEntry(Timestamp(t), label, data, r.value, sv.path))) ],
         converter.mode, label, r.value, sv.path)))))

\* main, lines 219-256 and 310-347: the try block and its except branch.
RunConversion(e, env, mode, label, data, reply, io, t) ==
  Bind(get_api_key(e, env), LAMBDA g :
  Bind(EDI944Converter(g.key, mode), LAMBDA converter :
  Bind(convert_tabular_to_edi944(converter, data, reply), LAMBDA r :
  Bind([ g.run EXCEPT !.prompts = @ \o r.prompts, !.logged = @ \o r.logged ], LAMBDA b :
  IF ~r.ok
  THEN ConversionFailed(b, mode, r.error)
  ELSE ConversionDone(b, converter, label, data, r, io, t)))))

\* A mutant of ConvertPress: the empty input is sent to the model like any other.
ConvertPressNoEmptyCheck(e, env, mode, label, data, reply, io, t) ==
  RunConversion(St(e, TabCall(mode, "218:st.spinner", "309:st.spinner"), << >>, {}),
                env, mode, label, data, reply, io, t)

\* main, lines 214-256 (mode "standard", label "Standard EDI 944") and
\* 305-347 (mode "synapse", label "Synapse EDI 944"): st.button returned True
\* with `data` in the tab's text area.
ConvertPress(e, env, mode, label, data, reply, io, t) ==
  IF data = ""
  THEN St(e, TabCall(mode, "216:st.error", "307:st.error"),
          << Shown("error", "Please enter tabular data to convert.") >>, {})
  ELSE RunConversion(St(e, TabCall(mode, "218:st.spinner", "309:st.spinner"), << >>, {}),
                     env, mode, label, data, reply, io, t)

\* str(n) of a small count.
NumStr(n) == SubSeq("0123456789", n + 1, n + 1)

\* main, lines 364-371: the download link of a history entry whose file is
\* still there (get_download_link then logs nothing), else the warning.
HistoryLink(e, entry, k) ==
  Bind(e, LAMBDA a :
  IF entry.file_path \in DOMAIN a.files
  THEN Bind(get_download_link(a.files, entry.file_path,
                              "Download " \o entry.mode \o " Code"), LAMBDA dl :
       St([ a EXCEPT !.logged = @ \o dl.logged ], "369:st.markdown#" \o NumStr(k),
          << Shown("download", dl.link) >>, {}))
  ELSE St(a, "371:st.warning#" \o NumStr(k),
          << Shown("warning", "Download file no longer available.") >>, {}))

\* main, lines 356-371: the entries of the history tab, newest first, from
\* entry k down.
\*   "357:st.expander#k"      lines 356-357 (with the reads of st.session_state)
\*   "358:st.text#k"          lines 358-359 ("Input Preview:" and the input)
\*   "360:st.text#k"          lines 360-361 ("Output Preview:" and the output)
RECURSIVE HistoryItems(_, _)
HistoryItems(e, k) ==
  IF k = 0 THEN e
  ELSE Bind(e, LAMBDA a :
       Bind(a.session["conversion_history"][k], LAMBDA entry :
       HistoryItems(
         HistoryLink(
           St(St(St(a, "357:st.expander#" \o NumStr(k),
                    << Shown("expander", "Conversion " \o NumStr(k) \o ": " \o entry.timestamp
                                         \o " (" \o entry.mode \o ")") >>, {}),
                 "358:st.text#" \o NumStr(k), << Shown("text", entry.input) >>, {}),
              "360:st.text#" \o NumStr(k), << Shown("text", entry.output) >>, {}),
           entry, k),
         k - 1)))

\* main, lines 349-371: the history tab.
\*   "350:st.header"          lines 350-352 (with the read of st.session_state)
HistoryTab(e) ==
  Bind(St(e, "350:st.header", << >>, {}), LAMBDA a :
  IF a.session["conversion_history"] = << >>
  THEN St(a, "353:st.info",
          << Shown("info", "No conversion history yet. Convert some data to see it here.") >>,
          {})
  ELSE HistoryItems(a, Len(a.session["conversion_history"])))

\* The mode each tab builds its converter with, and the label of its conversions.
TabMode(widget) == IF widget = "standard_convert_button" THEN "standard" ELSE "synapse"
TabLabel(widget) ==
  IF widget = "standard_convert_button" THEN "Standard EDI 944" ELSE "Synapse EDI 944"

ConvertButtons == {"standard_convert_button", "synapse_convert_button"}

\* main, lines 170-256 and 258-347: a conversion tab with its button, and the
\* conversion when the button is the one that was pressed.
\*   "171:st.header"          lines 171-208 (down to the st.button)
\*   "259:st.header"          lines 259-299
Tab(e, env, button, widget, data, reply, io, t) ==
  Bind(St(e, TabCall(TabMode(button), "171:st.header", "259:st.header"), << >>, {button}),
       LAMBDA a :
  IF widget = button
  THEN ConvertPress(a, env, TabMode(button), TabLabel(button), data, reply, io, t)
  ELSE a)

\* main, lines 168-371: the three tabs.
Tabs(e, env, widget, data, reply, io, t) ==
  HistoryTab(
    Tab(Tab(St(e, "168:st.tabs",
               << Shown("tabs", "Standard EDI 944 | Synapse EDI 944 | Conversion History") >>,
               {}),
            env, "standard_convert_button", widget, data, reply, io, t),
        env, "synapse_convert_button", widget, data, reply, io, t))

\* A mutant of Content: the tabs are drawn whether a key is configured or not.
ContentUngated(e, env, widget, data, reply, io, t) ==
  Tabs(get_api_key(e, env).run, env, widget, data, reply, io, t)

\* main, lines 165-385: the content area.
\*   "377:st.subheader"       lines 377-385 (with st.write and st.markdown)
Content(e, env, widget, data, reply, io, t) ==
  Bind(get_api_key(e, env), LAMBDA g :
  IF g.key = ""
  THEN St(St(g.run, "374:st.info",
             << Shown("info", "Please enter your OpenAI API key in the sidebar to start using the application.") >>,
             {}),
          "377:st.subheader", << >>, {})
  ELSE Tabs(g.run, env, widget, data, reply, io, t))

\* main(): the script from line 115 to its end in the run e, with the widget
\* the user triggered (and its text) and what the environment does during
\* the run.  st.rerun() (lines 144, 154) ends the run where it is called.
\*   "157:st.sidebar.title"   lines 157-163 (with st.sidebar.info)
main(e, env, widget, text, answer, data, reply, io, t) ==
  Bind(Sidebar(init_session_state(e), env, widget, text, answer), LAMBDA side :
  IF side.rerun
  THEN side
  ELSE Content(St(side, "157:st.sidebar.title", << >>, {}),
               env, widget, data, reply, io, t))

\* app.py: one run of the script to its end over session s and files fs:
\* st.set_page_config (line 12), then main() (line 23).  Nothing in main()
\* raises an Exception, so the except branch of line 24 is not entered.
app(s, env, fs, widget, text, answer, data, reply, io, t) ==
  main(St(NewRun(s, fs), "app.py:12:st.set_page_config", << >>, {}),
       env, widget, text, answer, data, reply, io, t)

\* The run the script makes when an event is pending at its k-th call of
\* st.* (the run stops in that call), or to its end (k = 0).
RunUpTo(m, k) ==
  IF k = 0
  THEN [ session |-> m.session, files |-> m.files, shown |-> m.shown, widgets |-> m.widgets,
         prompts |-> m.prompts, logged |-> m.logged, read_clock |-> m.read_clock,
         rerun |-> m.rerun, stopped |-> FALSE ]
  ELSE [ session |-> m.frames[k].at.session, files |-> m.frames[k].at.files,
         shown |-> m.frames[k].at.shown, widgets |-> m.frames[k].at.widgets,
         prompts |-> m.frames[k].at.prompts, logged |-> m.frames[k].at.logged,
         read_clock |-> m.frames[k].at.read_clock,
         rerun |-> FALSE, stopped |-> TRUE ]

\* The runs a script can make of m: to its end, or stopped in one of its calls.
Outcomes(m) == {RunUpTo(m, k) : k \in 0..Len(m.frames)}

(****************************** test_api.py ********************************)
\* A run of the test tool's script as far as it has come: the process
\* environment as the script has left it, whether it started the main app,
\* what it has drawn, the buttons it has put on the page, and one frame for
\* every st.* call it made (see St).
NewToolRun(env) ==
  [ environ |-> env, launched |-> FALSE, shown |-> << >>, widgets |-> {}, frames |-> << >> ]

ToolFrame(r) ==
  [ environ |-> r.environ, launched |-> r.launched, shown |-> r.shown, widgets |-> r.widgets ]

\* The call `name` of st.* in the test tool.
ToolSt(e, name, items, ws) ==
  Bind(e, LAMBDA r :
  [ r EXCEPT !.frames = Append(@, [name |-> name, at |-> ToolFrame(r)]),
             !.shown = @ \o items,
             !.widgets = @ \cup ws ])

\* test_openai, lines 47-59: the except branch.
\*   "49:st.write"            lines 49-50 (with st.code)
\*   "53:st.subheader"        lines 53-54 (with st.markdown)
ToolFailed(e, error) ==
  ToolSt(ToolSt(ToolSt(e, "48:st.error", << Shown("error", "Error: " \o error) >>, {}),
                "49:st.write", << Shown("code", error) >>, {}),
         "53:st.subheader", << >>, {})

\* test_openai: one run of the test tool's script with api_key in its text
\* input, the two st.button() results of the run, and what the chat model
\* does to "Say hello" (it answers or raises).  Line 41 stores the key in
\* os.environ and line 44 starts the main app; both sit inside the block of
\* the first button.
\*   "7:st.title"             lines 7-11 (with st.write and st.text_input)
test_openai(env, api_key, test_pressed, continue_pressed, answer) ==
  Bind(ToolSt(ToolSt(NewToolRun(env), "7:st.title", << >>, {}),
              "14:st.button", << >>, {"test_api_connection"}), LAMBDA a :
  IF ~test_pressed
  THEN a
  ELSE IF api_key = ""
  THEN ToolSt(a, "16:st.error", << Shown("error", "Please enter an API key") >>, {})
  ELSE Bind(ToolSt(a, "23:st.info",
                   << Shown("info", "Testing API connection with LangChain ChatOpenAI...") >>,
                   {}), LAMBDA b :
       IF answer.kind = "raise"
       THEN ToolFailed(b, answer.text)
       ELSE Bind(ToolSt(ToolSt(b, "36:st.success",
                               << Shown("success", "API call successful! Response: "
                                                   \o answer.text) >>, {}),
                        "39:st.button", << >>, {"continue_to_main_app"}), LAMBDA c :
            IF continue_pressed
            THEN ToolSt([ c EXCEPT !.environ = api_key, !.launched = TRUE ],
                        "45:st.stop", << >>, {})
            ELSE c)))

\* The run the test tool's script makes when an event is pending at its k-th
\* call of st.* (the run stops in that call), or to its end (k = 0).
ToolRunUpTo(m, k) ==
  IF k = 0
  THEN [ environ |-> m.environ, launched |-> m.launched, shown |-> m.shown,
         widgets |-> m.widgets, stopped |-> FALSE ]
  ELSE [ environ |-> m.frames[k].at.environ, launched |-> m.frames[k].at.launched,
         shown |-> m.frames[k].at.shown, widgets |-> m.frames[k].at.widgets,
         stopped |-> TRUE ]

ToolOutcomes(m) == {ToolRunUpTo(m, k) : k \in 0..Len(m.frames)}

(************************ sample inputs and replies ************************)
\* Tabular inputs in the layout of the prompts' samples: an HDR line, then
\* DTL|line|item|lot||unit|quantity lines.
InputHeader == "HDR|CAN|944|O|R1|20250303"
InputTwoItems == InputHeader \o "\nDTL|1|ITEMA|NA||EA|3\nDTL|2|ITEMB|NA||EA|5"
\* The second line item has no quantity, the third no product ID.
InputMalformed == InputHeader \o "\nDTL|1|ITEMA|NA||EA|3\nDTL|2|ITEMB|NA||EA|\nDTL|3||NA||EA|5"
\* No line item at all.
InputNoItems == InputHeader
\* More than PreviewLen characters; the second line item has no quantity,
\* the third no product ID.
InputLongMalformed ==
  InputHeader \o "\nDTL|45|PBDCB81-MFA|NA||EA|2340|1.3542|2340|1.3542|0|2340|1|N|L|0.000783680555555556|CF"
  \o "\nDTL|46|PBDCB82-MFA|NA||EA|\nDTL|47||NA||EA|1188"

\* EDI 944 documents a model may answer with.
DocHead ==
  "ISA*00*ZZ*CAN*ZZ*WH1*250303*0800*U*00401*000000001*1*P*>~"
  \o "GS*RE*CAN*WH1*20250303*0800*1*X*004010~ST*944*0001~"
  \o "W17*F*20250303*R1*R1*C1*2*8~N1*WH*CAN~N9*ZZ*R1~"
ItemA == "W07*3*EA*ITEMA*VN*ITEMA~G69*ITEMA~N9*LT*NA~"
ItemB == "W07*5*EA*ITEMB*VN*ITEMB~G69*ITEMB~N9*LT*NA~"
DocTail == "SE*12*0001~GE*1*1~IEA*1*000000001~"
\* The faithful answer to InputTwoItems.
DocTwoItems == DocHead \o ItemA \o ItemB \o "W14*8~" \o DocTail
\* The faithful answer to InputNoItems.
DocNoItems == DocHead \o "W14*0~" \o "SE*6*0001~GE*1*1~IEA*1*000000001~"
\* Answers a model can also give: a wrong total, an interchange trailer
\* that does not match its header, the line items swapped, a W14 before the
\* line items, a reference copied from the prompt's example, and no
\* document at all.
DocBadTotal == DocHead \o ItemA \o ItemB \o "W14*9~" \o DocTail
DocBadControl == DocHead \o ItemA \o ItemB \o "W14*8~" \o "SE*12*0001~GE*1*1~IEA*1*000000002~"
DocSwapped == DocHead \o ItemB \o ItemA \o "W14*8~" \o DocTail
DocMisordered == DocHead \o "W14*8~" \o ItemA \o ItemB \o DocTail
DocFabricated ==
  DocHead \o ItemA \o "N9*PO*CS22/0406~" \o ItemB \o "W14*8~"
  \o "SE*13*0001~GE*1*1~IEA*1*000000001~"
Apology == "I'm sorry, the input is incomplete."

NoReply == [kind |-> "none", text |-> ""]

\* What the text areas of the page can hold when a convert button is pressed.
TabularInputs == {"", InputLongMalformed, InputNoItems}

\* What the model does to a request of the page.
\* The answer is a document of more than PreviewLen characters, with a form
\* feed and newlines around it and a CR LF inside.
UiDoc ==
  "ISA*00*ZZ*CAN*ZZ*WH1*250303*0800*U*00401*000000001*1*P*>~ST*944*0001~"
  \o "W07*3*EA*ITEMA~\r\nW07*5*EA*ITEMB~W14*8~SE*5*0001~IEA*1*000000001~"
UiReplies == {ReplyDict("\f\n" \o UiDoc \o "\r\n"), ReplyRaise("Connection error.")}

\* What the model does to a request of a converter driven directly.
ConvReplies ==
  { ReplyDict(DocTwoItems), ReplyDict(" \f" \o DocTwoItems \o "\r\n"), ReplyOther(DocNoItems),
    ReplyDict(DocBadTotal), ReplyDict(DocBadControl), ReplyDict(DocSwapped),
    ReplyDict(DocMisordered), ReplyDict(DocFabricated), ReplyDict(Apology),
    ReplyRaise("Connection error.") }

ConvInputs == {InputTwoItems, InputMalformed, InputNoItems}

\* Mode arguments a caller of the constructor can pass.
ModeArgs == {"standard", "synapse", "Standard", ""}

\* The seconds the wall clock can show; it never runs backwards.
Times == {0, 1}
Later(now) == {t \in Times : t >= now}

\* OPENAI_API_KEY of the process, when set.
EnvKey == "sk-env-key-0000"
\* What a user types into the key form: nothing, too short, ten characters,
\* a key.
ApiKeyTexts == {"", "sk-short", "sk-1234567", "sk-user-key-0001"}

\* What the user can type into the text input of the test tool.
ToolKeyTexts == {"", "sk-tool-key-0002"}

(******************************* state *************************************)
EmptyDict == [k \in {} |-> None]

\* The record of a run of main(): the button that started it, the key form's
\* text (read at line 134) and the pressed tab's text area (read at lines
\* 180, 268) when the run came to read them, what it drew, asked and logged,
\* and how it ended.  NoRun: the script has not run yet.
NoRun ==
  [ widget |-> "none", text |-> "", data |-> "", shown |-> << >>, widgets |-> {},
    prompts |-> << >>, logged |-> << >>, rerun |-> FALSE, stopped |-> FALSE,
    reply |-> NoReply, ran |-> FALSE ]

\* The browser's side of the session: the buttons on the page, and the
\* button whose handler asked for the next run with st.rerun() (lines 144
\* and 154), "none" when the next run is an event's.
NoPage == [ page |-> {}, due |-> "none" ]

NoConv == [ api_key |-> "", mode |-> None, model_name |-> "", template |-> standard_template ]

NoResult == [ ok |-> FALSE, value |-> "", error |-> "", prompts |-> << >>, logged |-> << >> ]

NoCall == [ data |-> "", reply |-> NoReply, result |-> NoResult ]

\* The page of the test tool before its script ran.
NoTool ==
  [ text |-> "", test_pressed |-> FALSE, continue_pressed |-> FALSE, shown |-> << >>,
    page |-> {}, launched |-> FALSE, stopped |-> FALSE, ran |-> FALSE ]

\* Before the first run of main() the session holds nothing; the process
\* environment may carry a key (load_dotenv, config.py line 9).
InitSession ==
  /\ session_state = EmptyDict
  /\ environ \in {"", EnvKey}
  /\ files = EmptyDict
  /\ clock = 0
  /\ ui = NoRun
  /\ browser = NoPage

Init == InitSession /\ conv = NoConv /\ call = NoCall /\ prev = NoCall /\ tool = NoTool

\* The key main() finds at line 132 of its next run.
ConfiguredKey == get_api_key(init_session_state(NewRun(session_state, files)), environ).key

\* The ScriptRunner starts the script for the next event or rerun: of the new
\* run nothing is drawn, asked or logged yet.
ScriptStarts ==
  /\ ui.ran
  /\ ui' = NoRun
  /\ UNCHANGED <<session_state, environ, files, clock, browser, conv, call, prev, tool>>

\* One run of the script takes the session from its state before to its
\* state after.  The run goes to its end, or another event of the session
\* arrives while it runs and it is stopped in one of its st.* calls or
\* accesses of st.session_state.  A run that
\* reached its end leaves its page in the browser; of a run that was stopped
\* or ended by st.rerun() the browser still shows what the page before held.
RunMain(widget, text, answer, data, reply, io, t) ==
  /\ ~ui.ran
  /\ \E o \in Outcomes(app(session_state, environ, files, widget, text, answer,
                            data, reply, io, t)) :
       /\ session_state' = o.session
       /\ files' = o.files
       /\ clock' = IF o.read_clock THEN t ELSE clock
       /\ ui' = [ widget |-> widget,
                  text |-> IF "api_key_form" \in o.widgets THEN text ELSE "",
                  data |-> IF widget \in o.widgets THEN data ELSE "",
                  shown |-> o.shown,
                  widgets |-> o.widgets, prompts |-> o.prompts, logged |-> o.logged,
                  rerun |-> o.rerun, stopped |-> o.stopped,
                  reply |-> IF o.prompts = << >> THEN NoReply ELSE reply, ran |-> TRUE ]
       /\ browser' = [ page |-> IF o.stopped \/ o.rerun
                                THEN browser.page \cup o.widgets ELSE o.widgets,
                       due |-> IF o.rerun THEN widget ELSE "none" ]
  /\ UNCHANGED <<environ, conv, call, prev, tool>>

\* A run no button started: the first load, a rerun asked for by st.rerun(),
\* or a widget other than a button changed.
RunIdle == RunMain("none", "", NoReply, "", NoReply, IoOk, clock)

\* A button on the page is pressed, unless a rerun is due.
\* "Save API Key" of the sidebar form.
SubmitApiKey ==
  /\ browser.due = "none" /\ "api_key_form" \in browser.page
  /\ \E text \in ApiKeyTexts :
     \E answer \in (IF text # "" /\ Len(Strip(text)) > 10
                    THEN KeyAnswers(text) ELSE {NoReply}) :
       RunMain("api_key_form", text, answer, "", NoReply, IoOk, clock)

\* "Change API Key" of the sidebar.
ChangeApiKey ==
  /\ browser.due = "none" /\ "change_api_key" \in browser.page
  /\ RunMain("change_api_key", "", NoReply, "", NoReply, IoOk, clock)

\* A convert button of a tab.  The model is asked only for a non-empty
\* input, the file system only after the model answered, the clock only
\* after the file was written.
PressConvertUpTo(max_files) ==
  /\ browser.due = "none"
  /\ Cardinality(DOMAIN files) < max_files
  /\ \E widget \in ConvertButtons \cap browser.page, data \in TabularInputs :
     \E reply \in (IF data = "" THEN {NoReply} ELSE UiReplies) :
     \E io \in (IF reply.kind = "dict" THEN IoOutcomes ELSE {IoOk}) :
     \E t \in (IF reply.kind = "dict" /\ io = IoOk THEN Later(clock) ELSE {clock}) :
       RunMain(widget, "", NoReply, data, reply, io, t)

PressConvert == PressConvertUpTo(MaxFiles)

Next == ScriptStarts \/ RunIdle \/ SubmitApiKey \/ ChangeApiKey \/ PressConvert

Spec == Init /\ [][Next]_vars

\* The converter class and config.set_conversion_mode driven directly.  Each
\* use is followed up to the first file it leaves or the first mode it sets.
Construct ==
  /\ files = EmptyDict /\ session_state = EmptyDict
  /\ \E api_key \in {EnvKey}, mode \in ModeArgs : conv' = EDI944Converter(api_key, mode)
  /\ call' = NoCall /\ prev' = NoCall
  /\ UNCHANGED <<session_state, environ, files, clock, ui, browser, tool>>

Invoke ==
  /\ files = EmptyDict /\ session_state = EmptyDict
  /\ conv.mode # None
  /\ \E data \in ConvInputs, reply \in ConvReplies :
       \E result \in {convert_tabular_to_edi944(conv, data, reply)} :
          call' = [ data |-> data, reply |-> reply, result |-> result ]
  /\ prev' = call
  /\ UNCHANGED <<session_state, environ, files, clock, ui, browser, conv, tool>>

\* save_to_file of what the last call returned.
Save ==
  /\ files = EmptyDict /\ session_state = EmptyDict
  /\ conv.mode # None /\ call.result.ok
  /\ \E io \in IoOutcomes : files' = save_to_file(conv, call.result.value, files, io).files
  /\ UNCHANGED <<session_state, environ, clock, ui, browser, conv, call, prev, tool>>

\* config.set_conversion_mode called directly (no code of the repository
\* calls it).
SetConversionMode ==
  /\ files = EmptyDict
  /\ \E mode \in ModeArgs : session_state' = set_conversion_mode(session_state, mode).session
  /\ UNCHANGED <<environ, files, clock, ui, browser, conv, call, prev, tool>>

NextConv == Construct \/ Invoke \/ Save \/ SetConversionMode

SpecConv == Init /\ [][NextConv]_vars

\* The test tool's page next to the session.  One run of its script, to its
\* end or stopped by the next event in one of its st.* calls; the page of a
\* stopped run still shows what the page before held.
RunTool(text, test_pressed, continue_pressed, answer) ==
  \E o \in ToolOutcomes(test_openai(environ, text, test_pressed, continue_pressed, answer)) :
     /\ environ' = o.environ
     /\ tool' = [ text |-> text,
                  test_pressed |-> test_pressed /\ "test_api_connection" \in o.widgets,
                  continue_pressed |-> continue_pressed /\ "continue_to_main_app" \in o.widgets,
                  shown |-> o.shown,
                  page |-> IF o.stopped THEN tool.page \cup o.widgets ELSE o.widgets,
                  launched |-> o.launched, stopped |-> o.stopped, ran |-> TRUE ]
     /\ UNCHANGED <<session_state, files, clock, ui, browser, conv, call, prev>>

\* What the chat model does in a run of the test tool that asks it.
ToolAnswers(text, test_pressed) ==
  IF test_pressed /\ text # "" THEN KeyAnswers(text) ELSE {NoReply}

\* The first load, or the text input was edited.
ToolIdle == \E text \in ToolKeyTexts : RunTool(text, FALSE, FALSE, NoReply)

\* "Test API Connection" is clicked on a page that shows it.
ToolTest ==
  /\ "test_api_connection" \in tool.page
  /\ \E text \in ToolKeyTexts :
     \E answer \in ToolAnswers(text, TRUE) : RunTool(text, TRUE, FALSE, answer)

\* "Continue to main app" is clicked on a page that shows it.  The click
\* can come right after one of "Test API Connection": Streamlit merges the
\* button presses of events that are pending together into one run, in
\* which both st.button() calls return True.
ToolContinue ==
  /\ "continue_to_main_app" \in tool.page
  /\ \E test_pressed \in BOOLEAN :
     \E answer \in ToolAnswers(tool.text, test_pressed) :
       RunTool(tool.text, test_pressed, TRUE, answer)

PressConvertKey == PressConvertUpTo(MaxKeyFiles)

NextKey ==
  \/ ScriptStarts \/ RunIdle \/ SubmitApiKey \/ ChangeApiKey \/ PressConvertKey
  \/ ToolIdle \/ ToolTest \/ ToolContinue

SpecKey == Init /\ [][NextKey]_vars

(********************** vocabulary of the properties ************************)
StartsWith(s, pre) == Len(s) >= Len(pre) /\ SubSeq(s, 1, Len(pre)) = pre
EndsWith(s, suf) == Len(s) >= Len(suf) /\ SubSeq(s, Len(s) - Len(suf) + 1, Len(s)) = suf

\* s.split(c)
Split(s, c) ==
  LET P == {i \in 1..Len(s) : Char(s, i) = c}
      n == Cardinality(P)
      pos == [k \in 1..n |-> CHOOSE i \in P : Cardinality({j \in P : j < i}) = k - 1]
      bound(k) == IF k = 0 THEN 0 ELSE IF k = n + 1 THEN Len(s) + 1 ELSE pos[k]
  IN [k \in 1..(n + 1) |-> SubSeq(s, bound(k - 1) + 1, bound(k) - 1)]

\* s without the whitespace around it, by position (not by Strip): from its
\* first to its last character that is not whitespace.
RECURSIVE FirstInk(_, _)
FirstInk(s, i) == IF i > Len(s) \/ Char(s, i) \notin Whitespace THEN i ELSE FirstInk(s, i + 1)
RECURSIVE LastInk(_, _)
LastInk(s, i) == IF i < 1 \/ Char(s, i) \notin Whitespace THEN i ELSE LastInk(s, i - 1)
Trimmed(s) == IF FirstInk(s, 1) > Len(s) THEN "" ELSE SubSeq(s, FirstInk(s, 1), LastInk(s, Len(s)))

\* The line items of a tabular input: its DTL lines, with the item in the
\* third field and the quantity in the seventh.
Field(line, n) == IF n <= Len(Split(line, "|")) THEN Split(line, "|")[n] ELSE ""
DetailLines(data) == SelectSeq(Split(data, "\n"), LAMBDA l : StartsWith(l, "DTL|"))
Incomplete(data) ==
  \E i \in 1..Len(DetailLines(data)) :
     Field(DetailLines(data)[i], 3) = "" \/ Field(DetailLines(data)[i], 7) = ""
NoLineItems(data) == DetailLines(data) = << >>
\* The inputs of the page that are incomplete, and those without a line item.
IncompleteInputs == {data \in TabularInputs : Incomplete(data)}
NoLineItemInputs == {data \in TabularInputs : NoLineItems(data)}

HistoryOf(s) == IF "conversion_history" \in DOMAIN s THEN s["conversion_history"] ELSE << >>
TempFilePathOf(s) == IF "temp_file_path" \in DOMAIN s THEN s["temp_file_path"] ELSE None

\* What the run recorded in u did and showed.
\* The st.button of a convert button returned True in the run (lines 208, 299).
ConvertPressed(u) == u.ran /\ u.widget \in ConvertButtons /\ u.widget \in u.widgets
HasShown(u, kind, text) == \E i \in 1..Len(u.shown) : u.shown[i] = Shown(kind, text)
ShownTexts(u, kind) == {u.shown[i].text : i \in {j \in 1..Len(u.shown) : u.shown[j].kind = kind}}
Succeeded(u) == HasShown(u, "success", "Conversion completed successfully!")
\* The run's save_to_file returned (converter.py line 186), or raised (line 190).
Recorded(u) ==
  \E i \in 1..Len(u.logged) :
     u.logged[i].level = "INFO" /\ StartsWith(u.logged[i].msg, "EDI 944 code saved to ")
SaveFailed(u) ==
  \E i \in 1..Len(u.logged) :
     /\ u.logged[i].level = "ERROR"
     /\ StartsWith(u.logged[i].msg, "Error saving EDI 944 code to file: ")
HasEdgeRule(template, rule) ==
  \E i \in 1..Len(template.edge_cases) : template.edge_cases[i] = rule

ModelFailure(u) == "Error during conversion: Error during conversion: " \o u.reply.text
SaveFailures == {"Error during conversion: Error saving EDI 944 code to file: " \o io.kind :
                   io \in IoOutcomes \ {IoOk}}

(******************************** C1 ***************************************)
\* C1 as stated: a convert press with non-empty input leaves
\* conversion_history, temp_file_path and the files as they were.
C1_ConversionLeavesStateUnchanged ==
  [][ (ConvertPressed(ui') /\ ui'.data # "") =>
        /\ HistoryOf(session_state') = HistoryOf(session_state)
        /\ TempFilePathOf(session_state') = TempFilePathOf(session_state)
        /\ files' = files ]_vars

\* C1 amended: a convert press with non-empty input changes the lasting
\* state only when its save_to_file returns.  The run has then created one
\* new temp file holding the output; after that it sets temp_file_path to
\* the file, appends one entry for it to conversion_history and draws the
\* success message and the output, in this order and as far as it gets
\* before another event stops it: a stopped run can leave the file without
\* the path, or the path without the entry.  A run that no event stops does
\* all of it.  When the model call fails, or the run is stopped before the
\* call, nothing changes; when saving fails the session is unchanged and at
\* most one temp file is left behind, holding nothing or a beginning of the
\* output.
C1_ConversionEffect ==
  [][ (ConvertPressed(ui') /\ ui'.data # "") =>
        LET h == HistoryOf(session_state)
            h2 == HistoryOf(session_state')
            p == TempFilePathOf(session_state')
            new == (DOMAIN files') \ (DOMAIN files)
        IN IF Recorded(ui')
           THEN /\ Cardinality(new) = 1
                /\ DOMAIN files \subseteq DOMAIN files'
                /\ \A q \in DOMAIN files : files'[q] = files[q]
                /\ \A q \in new : files'[q] = Trimmed(ui'.reply.text)
                /\ p \in new \/ p = TempFilePathOf(session_state)
                /\ \/ h2 = h
                   \/ /\ Len(h2) = Len(h) + 1
                      /\ SubSeq(h2, 1, Len(h)) = h
                      /\ h2[Len(h2)].file_path = p
                      /\ p \in new
                /\ ~ui'.stopped => Succeeded(ui')
                /\ Succeeded(ui') => h2 # h
                /\ (Succeeded(ui') /\ ~ui'.stopped) => HasShown(ui', "code", files'[p])
                /\ ShownTexts(ui', "code") \subseteq {Trimmed(ui'.reply.text)}
                /\ ShownTexts(ui', "code") # {} => Succeeded(ui')
           ELSE /\ h2 = h
                /\ p = TempFilePathOf(session_state)
                /\ ~Succeeded(ui') /\ ShownTexts(ui', "code") = {}
                /\ \A q \in DOMAIN files : q \in DOMAIN files' /\ files'[q] = files[q]
                /\ (ui'.reply.kind = "raise" \/ ui'.prompts = << >>) => files' = files
                /\ files' # files => SaveFailed(ui')
                /\ Cardinality(DOMAIN files') <= Cardinality(DOMAIN files) + 1
                /\ \A q \in (DOMAIN files') \ (DOMAIN files) :
                      StartsWith(Trimmed(ui'.reply.text), files'[q]) ]_vars

\* The same request made twice and succeeding twice: two entries, two files.
C1_Witness ==
  LET h == HistoryOf(session_state)
  IN /\ ConvertPressed(ui) /\ Succeeded(ui)
     /\ Len(h) = 2
     /\ h[1].input = h[2].input /\ h[1].mode = h[2].mode /\ h[1].output = h[2].output
     /\ h[1].file_path # h[2].file_path
     /\ Cardinality(DOMAIN files) = 2

(******************************** C3 ***************************************)
\* C3 as stated: a convert press whose input has a line item without
\* quantity or product ID, in a run that no event stops, ends in an error and
\* produces no output.
C3_IncompleteInputIsRejected ==
  (ConvertPressed(ui) /\ ui.data \in IncompleteInputs /\ ~ui.stopped) =>
     /\ ~Succeeded(ui)
     /\ ShownTexts(ui, "error") # {}
     /\ ShownTexts(ui, "code") = {}

\* C3 amended: an input whose line items lack a quantity or a product ID
\* is not checked: unless another event stops the run before the call, it is
\* sent to the model unchanged, once, under an instruction block that asks
\* for placeholder values.  When the model answered and the file was
\* written the output is in a temp file, and a run that no event stops goes
\* on to the success message; a run that drew the success message has stored
\* the output (temp_file_path and the last entry of conversion_history name
\* its file), and a run that no event stops has also shown it and offered
\* it for download.  An error is shown only when the model call or the save
\* failed, and never next to the success message.
C3_IncompleteInputIsSent ==
  (ConvertPressed(ui) /\ ui.data \in IncompleteInputs) =>
     /\ ui.prompts = << >> => ui.stopped
     /\ Len(ui.prompts) <= 1
     /\ ui.prompts # << >> =>
          /\ ui.prompts[1].tabular_data = ui.data
          /\ HasEdgeRule(ui.prompts[1].template,
                         "If minimal data is provided, create appropriate placeholder values")
     /\ ~ui.stopped => (Succeeded(ui) <=> ShownTexts(ui, "error") = {})
     /\ Succeeded(ui) => ShownTexts(ui, "error") = {}
     /\ ShownTexts(ui, "code") # {} => Succeeded(ui)
     /\ ShownTexts(ui, "error") \subseteq
          (IF ui.reply.kind = "raise" THEN {ModelFailure(ui)} ELSE SaveFailures)
     /\ Recorded(ui) =>
          /\ \E q \in DOMAIN files : files[q] = Trimmed(ui.reply.text)
          /\ ~ui.stopped => Succeeded(ui)
     /\ Succeeded(ui) =>
          LET h == HistoryOf(session_state)
              p == TempFilePathOf(session_state)
          IN /\ Recorded(ui)
             /\ h # << >> /\ h[Len(h)].file_path = p
             /\ p \in DOMAIN files /\ files[p] = Trimmed(ui.reply.text)
             /\ ShownTexts(ui, "code") \subseteq {files[p]}
             /\ ~ui.stopped =>
                  /\ HasShown(ui, "code", files[p])
                  /\ \E link \in ShownTexts(ui, "download") : link # None

\* An incomplete input went through: its output was stored, shown and
\* offered for download.
C3_Witness ==
  /\ ConvertPressed(ui) /\ ui.data \in IncompleteInputs /\ Succeeded(ui) /\ ~ui.stopped
  /\ HistoryOf(session_state) # << >>
  /\ ShownTexts(ui, "code") # {} /\ ShownTexts(ui, "download") # {}

(******************************** C4 ***************************************)
\* A document's terminated segments and their elements.
Segments(doc) == SubSeq(Split(doc, "~"), 1, Len(Split(doc, "~")) - 1)
Tags(doc) == [i \in 1..Len(Segments(doc)) |-> Split(Segments(doc)[i], "*")[1]]
SegmentsTagged(doc, tag) == SelectSeq(Segments(doc), LAMBDA g : Split(g, "*")[1] = tag)
Element(seg, n) == IF n <= Len(Split(seg, "*")) THEN Split(seg, "*")[n] ELSE ""

\* C4 as stated: a convert press with an input of zero line items (the
\* empty input included) that the environment does not fail and no event
\* stops succeeds and shows a document with ISA, GS, ST, SE, GE, IEA and a
\* W14 total of 0.
C4_NoLineItemsIsConverted ==
  (ConvertPressed(ui) /\ ui.data \in NoLineItemInputs /\ ~ui.stopped /\ ui.reply.kind # "raise"
     /\ ShownTexts(ui, "error") \cap SaveFailures = {}) =>
     /\ Succeeded(ui)
     /\ \E doc \in ShownTexts(ui, "code") :
          /\ \A tag \in {"ISA", "GS", "ST", "SE", "GE", "IEA"} : SegmentsTagged(doc, tag) # << >>
          /\ Len(SegmentsTagged(doc, "W14")) = 1
          /\ Element(SegmentsTagged(doc, "W14")[1], 2) = "0"

\* C4 amended: the empty input is not converted: the press shows "Please
\* enter tabular data to convert." (unless another event stops the run in
\* that st.error), the model is not called and no output is shown or
\* stored; a non-empty input with zero line items is sent to the model
\* like any other (unless another event stops the run before the call), and
\* what is shown on success is the model's answer without the whitespace
\* around it, whatever segments it holds.
C4_EmptyInputRejected ==
  (ConvertPressed(ui) /\ ui.data \in NoLineItemInputs) =>
     IF ui.data = ""
     THEN /\ ShownTexts(ui, "error") \subseteq {"Please enter tabular data to convert."}
          /\ ShownTexts(ui, "error") = {} => ui.stopped
          /\ ~Succeeded(ui)
          /\ ShownTexts(ui, "code") = {}
          /\ ui.prompts = << >>
          /\ ~Recorded(ui) /\ ~SaveFailed(ui)
     ELSE /\ ui.prompts = << >> => ui.stopped
          /\ Len(ui.prompts) <= 1
          /\ ui.prompts # << >> => ui.prompts[1].tabular_data = ui.data
          /\ "Please enter tabular data to convert." \notin ShownTexts(ui, "error")
          /\ ShownTexts(ui, "code") \subseteq {Trimmed(ui.reply.text)}
          /\ (Succeeded(ui) /\ ~ui.stopped) => ShownTexts(ui, "code") # {}

\* The empty input was pressed and turned away.
C4_Witness ==
  /\ ConvertPressed(ui) /\ ui.data = "" /\ ~ui.stopped
  /\ HasShown(ui, "error", "Please enter tabular data to convert.")

(******************************** C5 ***************************************)
\* C5 as stated: when the model call of a conversion fails, the chain was
\* invoked once for that press, the page shows an error that carries the
\* failure's description and no success message, and the failure is logged
\* as an error.
C5_FailureSurfacedOnce ==
  (ConvertPressed(ui) /\ ui.reply.kind = "raise") =>
     /\ Len(ui.prompts) = 1
     /\ ui.prompts[1].tabular_data = ui.data
     /\ ~Succeeded(ui)
     /\ ShownTexts(ui, "success") = {}
     /\ ShownTexts(ui, "code") = {}
     /\ ShownTexts(ui, "error") # {}
     /\ \A e \in ShownTexts(ui, "error") :
          StartsWith(e, "Error during conversion: ") /\ EndsWith(e, ui.reply.text)
     /\ \E i \in 1..Len(ui.logged) :
          ui.logged[i].level = "ERROR" /\ EndsWith(ui.logged[i].msg, ui.reply.text)

(******************************** C2 ***************************************)
\* A converter that was called (SpecConv).
Called(c) == c.result.prompts # << >>

\* C2 as stated: two successive calls of one converter with the same input
\* return the same string.
C2_SameInputSameOutput ==
  (Called(prev) /\ Called(call) /\ prev.result.ok /\ call.result.ok
     /\ prev.data = call.data) => prev.result.value = call.result.value

\* C2 amended: the returned string is decided by the model's reply alone,
\* whatever was called before: it is the reply's text without the
\* whitespace around it; the reply to one and the same input may differ
\* from call to call, and then so does the output.
C2_OutputIsTrimmedReply ==
  (Called(call) /\ call.result.ok) =>
     /\ call.reply.kind \in {"dict", "other"}
     /\ call.result.value = Trimmed(call.reply.text)
     /\ call.result.error = ""

\* The same input twice, two different outputs, the second one stripped.
C2_Witness ==
  /\ Called(prev) /\ Called(call) /\ prev.result.ok /\ call.result.ok
  /\ prev.data = call.data
  /\ prev.result.value # call.result.value
  /\ call.result.value # call.reply.text

(******************************** C6 ***************************************)
\* C6 as stated: mode "standard" selects the standard block, mode "synapse"
\* the synapse block, the two differ, every prompt carries the block of its
\* converter, and any other mode value selects neither.
C6_ModeSelectsBlock ==
  conv.mode # None =>
     /\ standard_template # synapse_template
     /\ conv.mode = "standard" => conv.template = standard_template
     /\ conv.mode = "synapse" => conv.template = synapse_template
     /\ \A i \in 1..Len(call.result.prompts) : call.result.prompts[i].template = conv.template
     /\ conv.mode \notin {"standard", "synapse"} =>
          conv.template \notin {standard_template, synapse_template}

(******************************** C7 ***************************************)
Digits == {"0", "1", "2", "3", "4", "5", "6", "7", "8", "9"}
IsNat(s) == s # "" /\ \A i \in 1..Len(s) : Char(s, i) \in Digits
DigitValue(c) == CHOOSE d \in 0..9 : SubSeq("0123456789", d + 1, d + 1) = c

\* int(s[:n])
RECURSIVE NatOf(_, _)
NatOf(s, n) == IF n = 0 THEN 0 ELSE 10 * NatOf(s, n - 1) + DigitValue(Char(s, n))

\* The sum of the quantities of the first n W07 segments.
RECURSIVE SumQty(_, _)
SumQty(w07, n) ==
  IF n = 0 THEN 0 ELSE SumQty(w07, n - 1) + NatOf(Element(w07[n], 2), Len(Element(w07[n], 2)))

\* The W14 total of a document is the sum of its W07 quantities.
TotalsAgree(doc) ==
  LET w14 == SegmentsTagged(doc, "W14")
      w07 == SegmentsTagged(doc, "W07")
  IN /\ Len(w14) = 1
     /\ IsNat(Element(w14[1], 2))
     /\ \A i \in 1..Len(w07) : IsNat(Element(w07[i], 2))
     /\ NatOf(Element(w14[1], 2), Len(Element(w14[1], 2))) = SumQty(w07, Len(w07))

\* C7 as stated: in the reference document of the converter's instruction
\* block, and in every returned document with a W14 segment, the W14 total
\* is the sum of the W07 quantities.
C7_TotalIsSumOfQuantities ==
  conv.mode # None =>
     /\ TotalsAgree(conv.template.sample_edi)
     /\ (Called(call) /\ call.result.ok /\ SegmentsTagged(call.result.value, "W14") # << >>) =>
          TotalsAgree(call.result.value)

(******************************** C8 ***************************************)
\* A document with one of each envelope segment.
HasEnvelope(doc) ==
  \A tag \in {"ISA", "IEA", "GS", "GE", "ST", "SE"} : Len(SegmentsTagged(doc, tag)) = 1

\* ST02 = SE02, GS06 = GE02, and the interchange control number of ISA
\* (fourth element from the end) = IEA02.
ControlNumbersPair(doc) ==
  LET one(tag) == SegmentsTagged(doc, tag)[1]
      isa == Split(one("ISA"), "*")
  IN /\ Element(one("ST"), 3) = Element(one("SE"), 3)
     /\ Element(one("GS"), 7) = Element(one("GE"), 3)
     /\ Len(isa) > 3 /\ isa[Len(isa) - 3] = Element(one("IEA"), 3)

\* C8 as stated: in every returned document with an envelope (and in the
\* reference document of the instruction block) the control numbers of
\* ST/SE, GS/GE and ISA/IEA pair up.
C8_ControlNumbersPair ==
  conv.mode # None =>
     /\ HasEnvelope(conv.template.sample_edi) /\ ControlNumbersPair(conv.template.sample_edi)
     /\ (Called(call) /\ call.result.ok /\ HasEnvelope(call.result.value)) =>
          ControlNumbersPair(call.result.value)

(******************************** C9 ***************************************)
\* ISA GS ST W17 N1* N9* (W07 G69 N9*)* W14 SE GE IEA
InFixedOrder(doc) ==
  LET T == Tags(doc)
      n == Len(T)
      items == {i \in 5..(n - 4) : T[i] = "W07"}
      f == IF items = {} THEN n - 3 ELSE CHOOSE i \in items : \A j \in items : i <= j
  IN /\ n >= 8
     /\ SubSeq(T, 1, 4) = << "ISA", "GS", "ST", "W17" >>
     /\ SubSeq(T, n - 3, n) = << "W14", "SE", "GE", "IEA" >>
     /\ \A i \in 5..(f - 1) :
          /\ T[i] \in {"N1", "N9"}
          /\ T[i] = "N1" => \A j \in 5..(i - 1) : T[j] = "N1"
     /\ \A i \in f..(n - 4) :
          /\ T[i] \in {"W07", "G69", "N9"}
          /\ T[i] = "W07" => (i + 1 <= n - 4 /\ T[i + 1] = "G69")
          /\ T[i] = "G69" => T[i - 1] = "W07"

\* The i-th W07 carries the quantity and the item of the i-th DTL line.
ItemsCorrespond(doc, data) ==
  LET w07 == SegmentsTagged(doc, "W07")
      dtl == DetailLines(data)
  IN /\ Len(w07) = Len(dtl)
     /\ \A i \in 1..Len(w07) :
          /\ Element(w07[i], 2) = Field(dtl[i], 7)
          /\ Element(w07[i], 4) = Field(dtl[i], 3)

\* C9 as stated: every returned document is in the fixed segment order and
\* its line-item blocks follow the input's line items.
C9_FixedSegmentOrder ==
  (Called(call) /\ call.result.ok) =>
     /\ InFixedOrder(call.result.value)
     /\ ItemsCorrespond(call.result.value, call.data)

(******************************** C10 **************************************)
\* Every field of every line of a tabular input.
InputValues(data) ==
  UNION { {Split(Split(data, "\n")[l], "|")[k] : k \in 1..Len(Split(Split(data, "\n")[l], "|"))}
          : l \in 1..Len(Split(data, "\n")) }

\* The N9 segments that follow the first W07: the line items' attributes.
AttributeN9s(doc) ==
  LET S == Segments(doc)
      items == {i \in 1..Len(S) : Split(S[i], "*")[1] = "W07"}
  IN {S[i] : i \in {j \in 1..Len(S) : Split(S[j], "*")[1] = "N9" /\ \E k \in items : k < j}}

\* C10 as stated: every attribute N9 segment of a returned document carries
\* a value that is a field of the input.
C10_NoFabricatedReference ==
  (Called(call) /\ call.result.ok) =>
     \A seg \in AttributeN9s(call.result.value) : Element(seg, 3) \in InputValues(call.data)

\* C10 amended: the converter adds and removes no reference segment of its
\* own: the N9 segments of the returned string are those of the model's
\* answer, in order, those whose value is no field of the input included;
\* and the prompt it sent asked the model to create placeholder values and
\* to include reference segments even if they are not in the input.
C10_ReferencesAreTheModels ==
  Called(call) =>
     /\ \A i \in 1..Len(call.result.prompts) :
          /\ call.result.prompts[i].tabular_data = call.data
          /\ HasEdgeRule(call.result.prompts[i].template,
                         "If minimal data is provided, create appropriate placeholder values")
          /\ HasEdgeRule(call.result.prompts[i].template,
                         "Include appropriate reference segments even if not explicitly in input")
     /\ call.result.ok =>
          SegmentsTagged(call.result.value, "N9") = SegmentsTagged(call.reply.text, "N9")

\* A returned document with an attribute reference that is no field of the input.
C10_Witness ==
  /\ Called(call) /\ call.result.ok /\ call.data = InputTwoItems
  /\ \E seg \in AttributeN9s(call.result.value) :
       Element(seg, 3) \notin InputValues(call.data)

(******************************** C11 **************************************)
\* Every segment of doc is closed by one "~": doc ends with "~" and no
\* segment between two "~" is empty.
SegmentsTerminated(doc) ==
  /\ EndsWith(doc, "~")
  /\ \A i \in 1..Len(Segments(doc)) : Segments(doc)[i] # ""

\* C11 as stated: the string a conversion returns ends with "~" and each of
\* its segments is closed by exactly one "~".
C11_SegmentsTerminated ==
  (Called(call) /\ call.result.ok) => SegmentsTerminated(call.result.value)

(******************************** C12 **************************************)
\* The keys a user can enter, in the sidebar form or in the test tool, and
\* the characters they start with.
UserKeys == (ApiKeyTexts \cup ToolKeyTexts) \ {""}
KeyInitials == {Char(k, 1) : k \in UserKeys}

\* The user key that s holds at position i, if any.
KeysAt(s, i) == {k \in UserKeys : i + Len(k) - 1 <= Len(s) /\ SubSeq(s, i, i + Len(k) - 1) = k}
\* k in s, for some user key k
HoldsKey(s) == \E i \in 1..Len(s) : Char(s, i) \in KeyInitials /\ KeysAt(s, i) # {}

\* C12 as stated: whatever the user did (submitted a key, tested one,
\* clicked "Continue to main app", converted, changed the key), no key the
\* user entered is in the process environment, in a temp file or in a log
\* record of the run (config.py line 15 sends the log records to a file).
C12_KeyStaysInSession ==
  /\ ~HoldsKey(environ)
  /\ \A f \in DOMAIN files : ~HoldsKey(f) /\ ~HoldsKey(files[f])
  /\ \A i \in 1..Len(ui.logged) : ~HoldsKey(ui.logged[i].msg)

(******************************** C13 **************************************)
NoKeyInfo == "Please enter your OpenAI API key in the sidebar to start using the application."
TabsShown(u) == \E i \in 1..Len(u.shown) : u.shown[i].kind = "tabs"

\* C13: in every run of main() the model is asked by a converter only if
\* get_api_key() found a key in that run; a run that found none draws no
\* tab (so no convert button), asks the model nothing and leaves
\* conversion_history and temp_file_path as they were.
C13_ConversionNeedsKey ==
  [][ ui'.ran =>
        /\ ui'.prompts # << >> => ConfiguredKey # ""
        /\ ConfiguredKey = "" =>
             /\ ~TabsShown(ui')
             /\ ui'.prompts = << >>
             /\ HistoryOf(session_state') = HistoryOf(session_state)
             /\ TempFilePathOf(session_state') = TempFilePathOf(session_state) ]_vars

\* A session that converted, then gave up its key: the run that followed
\* drew the key form and the notice, no tab, and kept the history.
C13_Witness ==
  /\ ui.ran /\ ~ui.rerun /\ ConfiguredKey = ""
  /\ HasShown(ui, "info", NoKeyInfo) /\ HasShown(ui, "form", "api_key_form")
  /\ ~TabsShown(ui)
  /\ HistoryOf(session_state) # << >>

(******************************** C14 **************************************)
\* C14: a convert press whose model call raised, whose save raised, or
\* whose input was empty leaves conversion_history and temp_file_path
\* exactly as the run found them and draws no success message; with an empty
\* input the model is not asked either.
C14_FailureKeepsSession ==
  [][ (ConvertPressed(ui')
         /\ (ui'.data = "" \/ ui'.reply.kind = "raise" \/ SaveFailed(ui'))) =>
        /\ session_state'["conversion_history"] = session_state["conversion_history"]
        /\ session_state'["temp_file_path"] = session_state["temp_file_path"]
        /\ ~Succeeded(ui') /\ ~Recorded(ui')
        /\ ui'.data = "" => ui'.prompts = << >> ]_vars

\* After one conversion was recorded, a press whose save failed part-way:
\* the entry and the path of the earlier conversion are still there.
C14_Witness ==
  /\ ConvertPressed(ui) /\ SaveFailed(ui)
  /\ Len(HistoryOf(session_state)) = 1
  /\ TempFilePathOf(session_state) = HistoryOf(session_state)[1].file_path
  /\ Cardinality(DOMAIN files) = 2
  /\ \E q \in DOMAIN files :
       files[q] # "" /\ Len(files[q]) < Len(Trimmed(ui.reply.text))

(******************************** C15 **************************************)
\* C15 as stated: conversion_history starts empty; a run of main() in which
\* a conversion completed (the model answered and the file was saved)
\* appends one entry to it and keeps the entries before it as they were, in
\* their order; every other run (an idle run, a rerun, a key submitted or
\* changed, a failed press, a press stopped before the call) leaves it as it
\* was.  So its length is the number of conversions that completed.
C15_HistoryAppendOnly ==
  /\ HistoryOf(session_state) = << >>
  /\ [][ ui'.ran =>
           LET h == HistoryOf(session_state)
               h2 == HistoryOf(session_state')
           IN IF ConvertPressed(ui') /\ Recorded(ui')
              THEN /\ Len(h2) = Len(h) + 1
                   /\ \A i \in 1..Len(h) : h2[i] = h[i]
                   /\ h2[Len(h2)].mode = TabLabel(ui'.widget)
                   /\ h2[Len(h2)].input = Preview(ui'.data)
              ELSE h2 = h ]_vars

(******************************** C16 **************************************)
\* C16 as stated: after every run of main() that got past
\* init_session_state, temp_file_path is None exactly when
\* conversion_history is empty, and is otherwise the file_path of its last
\* entry.
C16_PathIsLastEntrys ==
  (ui.ran /\ {"temp_file_path", "conversion_history"} \subseteq DOMAIN session_state) =>
     LET h == session_state["conversion_history"]
         p == session_state["temp_file_path"]
     IN /\ p = None <=> h = << >>
        /\ h # << >> => p = h[Len(h)].file_path

(******************************** C17 **************************************)
\* C17 as stated: once "Change API Key" was clicked no key is configured,
\* and the run that follows (the rerun line 154 asks for) draws no
\* conversion tab, and draws the key form if no event stops it before.
C17_ChangeKeyShowsForm ==
  [][ (browser.due = "change_api_key" /\ ui'.ran) =>
        /\ ConfiguredKey = ""
        /\ ~TabsShown(ui')
        /\ ~ui'.stopped => HasShown(ui', "form", "api_key_form") ]_vars

====
